---- MODULE Spec2Model ----
(***************************************************************************)
(* Flash Translation Layer wear-leveling simulation                        *)
(* (src/ftl_wear_leveling_simulation.c).                                   *)
(*                                                                         *)
(* The program's configuration is a set of #define constants and its       *)
(* workload a constant table.  The model keeps them in the record cfg,     *)
(* fixed for a whole execution, so that the same code can be run on the    *)
(* reference configuration and on small pools and arbitrary workloads.     *)
(***************************************************************************)
EXTENDS Integers, Sequences, FiniteSets

(* ---------------- program constants (reference configuration) --------- *)
NUM_BLOCKS == 512
BLOCK_SIZE == 4096
NUM_LOGICAL == 256
LIFESPAN == 5
NUM_STRINGS == 22
NUM_PER_STRING == 10
TOTAL_WRITES == NUM_STRINGS * NUM_PER_STRING
BENCH_RUNS == 100
INT_MAX == 2147483647

reference_strings ==
  << <<1,1,1,2,2,3,3,3,1,1>>, <<2,2,2,2,2,10,11,11,12,1>>,
     <<134,77,203,12,89,255,47,163,58,211>>,
     <<45,198,27,120,3,242,76,151,94,187>>,
     <<222,54,11,193,65,144,239,37,200,18>>,
     <<92,8,216,174,49,138,253,67,102,33>>,
     <<183,22,131,250,79,5,121,201,162,40>>,
     <<9,111,170,63,230,142,32,184,93,217>>,
     <<57,149,244,14,71,112,191,99,129,224>>,
     <<25,233,56,196,186,64,145,88,241,179>>,
     <<152,115,19,227,84,2,205,46,108,159>>,
     <<175,59,90,209,132,7,202,125,50,248>>,
     <<19,28,23,13,17,30,12,21,26,10>>,
     <<22,18,25,27,15,29,24,11,16,20>>,
     <<13,19,30,22,18,17,28,25,14,23>>,
     <<16,29,11,21,20,12,15,27,30,25>>,
     <<24,10,17,28,19,22,16,13,26,18>>,
     <<27,15,30,14,12,20,11,23,28,25>>,
     <<17,24,13,19,26,21,18,16,29,30>>,
     <<20,28,11,25,23,14,12,19,27,18>>,
     <<15,17,29,10,16,22,20,28,13,30>>,
     <<26,19,14,24,18,21,25,29,15,11>> >>

(* The nested loops s, j of simulate_ftl visit the table row by row: the   *)
(* k-th request (k from 1) is reference_strings[s][j] with                 *)
(* s = (k-1) / NUM_PER_STRING and j = (k-1) % NUM_PER_STRING.              *)
ReferenceWorkload ==
  [k \in 1..TOTAL_WRITES |->
     reference_strings[((k - 1) \div NUM_PER_STRING) + 1]
                      [((k - 1) % NUM_PER_STRING) + 1]]

(* ---------------- bounds of the small configurations ------------------ *)
MaxBlocks == 2
MaxLifespan == 2
MaxLogical == 2
MaxLen == 3
MaxBenchRuns == 1
MaxCount == 2

(* ---------------- configurations -------------------------------------- *)
Reference ==
  [nb |-> NUM_BLOCKS, life |-> LIFESPAN, nl |-> NUM_LOGICAL,
   workload |-> ReferenceWorkload]

(* Scenario A of the specification: 4 blocks, lifespan 2, 2 logical slots, *)
(* with and without a ninth valid request.                                 *)
ScenarioAWorkload == <<0, 0, 0, 0, 1, 1, 1, 1>>

ScenarioA ==
  { [nb |-> 4, life |-> 2, nl |-> 2, workload |-> w] :
      w \in {ScenarioAWorkload} \cup
            { Append(ScenarioAWorkload, x) : x \in 0..1 } }

(* Logical addresses of the generated workloads: -1 and MaxLogical are out *)
(* of range in every small configuration.                                *)
Lbas == (-1)..MaxLogical

Workloads == UNION { [1..n -> Lbas] : n \in 0..MaxLen }

SmallConfigs ==
  { [nb |-> b, life |-> l, nl |-> n, workload |-> w] :
      b \in 1..MaxBlocks, l \in 1..MaxLifespan, n \in 1..MaxLogical,
      w \in Workloads }

Configs == SmallConfigs \cup ScenarioA \cup {Reference}

(* ---------------- state ----------------------------------------------- *)
VARIABLES
  cfg,      \* the configuration and workload of this execution
  pc,       \* position of the program
  run,      \* number of simulate_ftl calls completed or in progress, minus 1
  idx,      \* number of requests of the workload consumed (s * NUM_PER_STRING + j)
  l2p,      \* l2p[NUM_LOGICAL], -1 is unmapped
  writes,   \* writes[NUM_BLOCKS]
  isDead,   \* isDead[NUM_BLOCKS], 0 or 1
  newP,     \* the selector's latest result
  devLog,   \* the device writes issued by this run, in order
  lastIo,   \* outcome of the latest fwrite (which the code discards)
  stats,    \* the statistics block's locals, once computed
  err,      \* latest message on stderr of this run
  exitCode, \* the process's exit status, -1 while running
  ret,      \* what the latest call of simulate_ftl handed back to main
  prev      \* the arrays of the previous run as they were when it returned

vars == <<cfg, pc, run, idx, l2p, writes, isDead, newP, devLog, lastIo,
          stats, err, exitCode, ret, prev>>

Blocks == 0..(cfg.nb - 1)
Logical == 0..(cfg.nl - 1)
NumRequests == Len(cfg.workload)

NoHealthyBlock == "ERROR: No healthy block available."

(* simulate_ftl is declared void: both of its returns, line 146 and the    *)
(* end of the function, hand nothing back.                                 *)
RetVoid == "void"
OpenError == "ERROR opening SSD.txt"

(* ---------------- select_physical_block ------------------------------- *)
(* Variants of the loop body of lines 98-101 with a slip in its test:      *)
(* ties go to the later block (<= for <); the first non-dead block is      *)
(* taken, whatever its count; the dead flag is not looked at.              *)
SelectStep_LastTie(w, d, i, st) ==
  IF d[i] = 0 /\ w[i] <= st.minW
  THEN [best |-> i, minW |-> w[i]]
  ELSE st

SelectStep_FirstAlive(w, d, i, st) ==
  IF d[i] = 0 /\ st.best = -1
  THEN [best |-> i, minW |-> w[i]]
  ELSE st

SelectStep_IgnoreDead(w, d, i, st) ==
  IF w[i] < st.minW
  THEN [best |-> i, minW |-> w[i]]
  ELSE st

(* One iteration of the loop of lines 97-102 at index i; st holds the      *)
(* locals best and minW.                                                   *)
SelectStep(w, d, i, st) ==
  IF d[i] = 0 /\ w[i] < st.minW
  THEN [best |-> i, minW |-> w[i]]
  ELSE st

(* The iterations lo, lo+1, ..., hi-1 of that loop, in ascending order,    *)
(* from the locals st.  The range is split in two, and the first half is   *)
(* evaluated (left = left, which is always true) before the second half    *)
(* starts from its result: the iterations run in the loop's order while    *)
(* the evaluation nests only to a depth of log(hi - lo).                   *)
RECURSIVE SelectScan(_, _, _, _, _)
SelectScan(w, d, lo, hi, st) ==
  IF lo >= hi THEN st
  ELSE IF hi = lo + 1 THEN SelectStep(w, d, lo, st)
  ELSE LET mid == (lo + hi) \div 2
           left == SelectScan(w, d, lo, mid, st)
       IN  IF left = left THEN SelectScan(w, d, mid, hi, left) ELSE st

select_physical_block(w, d) ==
  SelectScan(w, d, 0, cfg.nb, [best |-> -1, minW |-> INT_MAX]).best

(* ---------------- simulate_ftl: helpers -------------------------------- *)
(* Line 135: the request is skipped. *)
OutOfRange(lba) == lba < 0 \/ lba >= cfg.nl

(* Variants of the test of line 159: a block is retired one write early;  *)
(* a block is retired one write late (> for >=).                           *)
Worn_Early(c) == c >= cfg.life - 1

Worn_Late(c) == c > cfg.life

(* Line 159: the block has reached its lifespan. *)
Worn(c) == c >= cfg.life

(* Variant of line 158 that clears the count of a block that reaches its   *)
(* lifespan.                                                               *)
WearWrites_Erase(w, p) ==
  [w EXCEPT ![p] = IF w[p] + 1 >= cfg.life THEN 0 ELSE w[p] + 1]

(* Lines 158-160 on block p. *)
WearWrites(w, p) == [w EXCEPT ![p] = w[p] + 1]

WearDead(w, d, p) == IF Worn(w[p] + 1) THEN [d EXCEPT ![p] = 1] ELSE d

(* Variant of line 150 that keeps the first mapping of an address. *)
MapL2p_KeepFirst(t, lba, p) == IF t[lba] # -1 THEN t ELSE [t EXCEPT ![lba] = p]

(* Line 150. *)
MapL2p(t, lba, p) == [t EXCEPT ![lba] = p]

(* Variant of lines 153-160 in which the device write is issued after the  *)
(* wear update of line 158.                                                *)
DeviceWrite_AfterWear(p, lba) ==
  [offset |-> p * BLOCK_SIZE, size |-> BLOCK_SIZE, lba |-> lba,
   mapped |-> MapL2p(l2p, lba, p)[lba], count |-> writes[p] + 1]

(* Lines 153-155: the write issued to the device for request lba on block  *)
(* p, with what the run's state holds when fwrite is called: the L2P entry *)
(* of lba, already set by line 150, and the count of p, not yet            *)
(* incremented by line 158.                                                *)
DeviceWrite(p, lba) ==
  [offset |-> p * BLOCK_SIZE, size |-> BLOCK_SIZE, lba |-> lba,
   mapped |-> MapL2p(l2p, lba, p)[lba], count |-> writes[p]]

(* Lines 115-119. *)
FreshL2p == [a \in Logical |-> -1]
FreshWrites == [i \in Blocks |-> 0]
FreshDead == [i \in Blocks |-> 0]

(* Lines 115-119 in a later call: the locals l2p, writes and isDead are    *)
(* not initialised by their declarations (lines 111-113) and may hold what *)
(* the previous call left, t, w and d; the loops overwrite every entry.    *)
ResetL2p(t) == [a \in Logical |-> -1]

(* Variant without the assignment of line 117. *)
ResetWrites_Keep(w) == w

ResetWrites(w) == [i \in Blocks |-> 0]
ResetDead(d) == [i \in Blocks |-> 0]

NoStats ==
  [computed |-> FALSE, totalWrites |-> 0, firstHalfWrites |-> 0,
   secondHalfWrites |-> 0, deadCount |-> 0, minW |-> INT_MAX, maxW |-> 0,
   avg |-> <<0, 1>>, avg1 |-> <<0, 1>>, avg2 |-> <<0, 1>>]

(* One iteration of the loop of lines 172-180 at index i; acc holds the    *)
(* locals of lines 167-170.                                                *)
StatsStep(w, d, i, acc) ==
  [acc EXCEPT
     !.totalWrites = @ + w[i],
     !.minW = IF w[i] < @ THEN w[i] ELSE @,
     !.maxW = IF w[i] > @ THEN w[i] ELSE @,
     !.deadCount = IF d[i] # 0 THEN @ + 1 ELSE @,
     !.firstHalfWrites = IF i < cfg.nl THEN @ + w[i] ELSE @,
     !.secondHalfWrites = IF i < cfg.nl THEN @ ELSE @ + w[i]]

(* The iterations lo .. hi-1 of that loop in ascending order, split as in  *)
(* SelectScan.                                                             *)
RECURSIVE StatsScan(_, _, _, _, _)
StatsScan(w, d, lo, hi, acc) ==
  IF lo >= hi THEN acc
  ELSE IF hi = lo + 1 THEN StatsStep(w, d, lo, acc)
  ELSE LET mid == (lo + hi) \div 2
           left == StatsScan(w, d, lo, mid, acc)
       IN  IF left = left THEN StatsScan(w, d, mid, hi, left) ELSE acc

(* Lines 167-184.  A quotient of line 182-184 is kept as the pair          *)
(* <<numerator, denominator>>.                                             *)
ComputeStats(w, d) ==
  LET acc == StatsScan(w, d, 0, cfg.nb, NoStats)
  IN  [acc EXCEPT
         !.computed = TRUE,
         !.avg = <<acc.totalWrites, cfg.nb>>,
         !.avg1 = <<acc.firstHalfWrites, cfg.nl>>,
         !.avg2 = <<acc.secondHalfWrites, cfg.nl>>]

(* ---------------- initial state ---------------------------------------- *)
(* main has called simulate_ftl for the first time and the arrays are      *)
(* initialised (lines 111-119).                                            *)
Init ==
  /\ cfg \in Configs
  /\ pc = "open"
  /\ run = 0
  /\ idx = 0
  /\ l2p = FreshL2p
  /\ writes = FreshWrites
  /\ isDead = FreshDead
  /\ newP = -1
  /\ devLog = <<>>
  /\ lastIo = "none"
  /\ stats = NoStats
  /\ err = ""
  /\ exitCode = -1
  /\ ret = "none"
  /\ prev = [l2p |-> FreshL2p, writes |-> FreshWrites, isDead |-> FreshDead]

(* ---------------- simulate_ftl ----------------------------------------- *)
(* Line 121: fopen succeeds. *)
OpenOk ==
  /\ pc = "open"
  /\ pc' = "loop"
  /\ UNCHANGED <<cfg, run, idx, l2p, writes, isDead, newP, devLog, lastIo,
                 stats, err, exitCode, ret, prev>>

(* Lines 122-125: fopen fails, the process exits with status 1. *)
OpenFail ==
  /\ pc = "open"
  /\ pc' = "exit"
  /\ err' = OpenError
  /\ exitCode' = 1
  /\ UNCHANGED <<cfg, run, idx, l2p, writes, isDead, newP, devLog, lastIo,
                 stats, ret, prev>>

(* Variant of line 135 that leaves the loops on an out-of-range request    *)
(* (a return for the continue).                                            *)
SkipRequest_Return ==
  /\ pc = "loop"
  /\ idx < NumRequests
  /\ OutOfRange(cfg.workload[idx + 1])
  /\ pc' = "returned"
  /\ ret' = RetVoid
  /\ UNCHANGED <<cfg, run, idx, l2p, writes, isDead, newP, devLog, lastIo,
                 stats, err, exitCode, prev>>

(* Lines 134-135: an out-of-range request. *)
SkipRequest ==
  /\ pc = "loop"
  /\ idx < NumRequests
  /\ OutOfRange(cfg.workload[idx + 1])
  /\ idx' = idx + 1
  /\ UNCHANGED <<cfg, pc, run, l2p, writes, isDead, newP, devLog, lastIo,
                 stats, err, exitCode, ret, prev>>

(* Lines 134-160: an in-range request for which a block is selected.  The  *)
(* results of fseek and fwrite are not looked at: whether the device write *)
(* succeeds or fails, the wear update of lines 158-160 follows.            *)
WriteRequest ==
  /\ pc = "loop"
  /\ idx < NumRequests
  /\ LET lba == cfg.workload[idx + 1]
         p == select_physical_block(writes, isDead)
     IN  /\ ~OutOfRange(lba)
         /\ p # -1
         /\ newP' = p
         /\ l2p' = MapL2p(l2p, lba, p)
         /\ devLog' = Append(devLog, DeviceWrite(p, lba))
         /\ \E io \in {"ok", "fail"} : lastIo' = io
         /\ writes' = WearWrites(writes, p)
         /\ isDead' = WearDead(writes, isDead, p)
  /\ idx' = idx + 1
  /\ UNCHANGED <<cfg, pc, run, stats, err, exitCode, ret, prev>>

(* Lines 142-147: no block is selected; the function returns. *)
Exhausted ==
  /\ pc = "loop"
  /\ idx < NumRequests
  /\ ~OutOfRange(cfg.workload[idx + 1])
  /\ select_physical_block(writes, isDead) = -1
  /\ newP' = -1
  /\ err' = NoHealthyBlock
  /\ pc' = "returned"
  /\ ret' = RetVoid
  /\ UNCHANGED <<cfg, run, idx, l2p, writes, isDead, devLog, lastIo, stats,
                 exitCode, prev>>

(* Lines 164-206: the workload is drained; the statistics are computed. *)
Finish ==
  /\ pc = "loop"
  /\ idx = NumRequests
  /\ stats' = ComputeStats(writes, isDead)
  /\ pc' = "returned"
  /\ ret' = RetVoid
  /\ UNCHANGED <<cfg, run, idx, l2p, writes, isDead, newP, devLog, lastIo,
                 err, exitCode, prev>>

(* ---------------- main -------------------------------------------------- *)
MoreRuns == run < BENCH_RUNS /\ run < MaxBenchRuns

(* Lines 221-222 and 111-119: the next benchmark run starts from fresh     *)
(* locals.                                                                 *)
NextRun ==
  /\ pc = "returned"
  /\ MoreRuns
  /\ run' = run + 1
  /\ pc' = "open"
  /\ idx' = 0
  /\ l2p' = ResetL2p(l2p)
  /\ writes' = ResetWrites(writes)
  /\ isDead' = ResetDead(isDead)
  /\ newP' = -1
  /\ devLog' = <<>>
  /\ lastIo' = "none"
  /\ stats' = NoStats
  /\ err' = ""
  /\ ret' = "none"
  /\ prev' = [l2p |-> l2p, writes |-> writes, isDead |-> isDead]
  /\ UNCHANGED <<cfg, exitCode>>

(* Lines 224-230. *)
MainReturn ==
  /\ pc = "returned"
  /\ ~MoreRuns
  /\ pc' = "exit"
  /\ exitCode' = 0
  /\ UNCHANGED <<cfg, run, idx, l2p, writes, isDead, newP, devLog, lastIo,
                 stats, err, ret, prev>>

Next ==
  \/ OpenOk
  \/ OpenFail
  \/ SkipRequest
  \/ WriteRequest
  \/ Exhausted
  \/ Finish
  \/ NextRun
  \/ MainReturn

Spec == Init /\ [][Next]_vars

(* ---------------- the selector on arbitrary pools ---------------------- *)
(* select_physical_block takes any two int arrays.  Counts holds the write *)
(* counts it is applied to, the largest int among them.                    *)
Counts == ((-1)..MaxCount) \cup {INT_MAX}

InitSelect ==
  /\ \E b \in 1..MaxBlocks :
       cfg = [nb |-> b, life |-> LIFESPAN, nl |-> 1, workload |-> <<>>]
  /\ pc = "select"
  /\ run = 0
  /\ idx = 0
  /\ l2p = FreshL2p
  /\ writes \in [Blocks -> Counts]
  /\ isDead \in [Blocks -> {0, 1}]
  /\ newP = -1
  /\ devLog = <<>>
  /\ lastIo = "none"
  /\ stats = NoStats
  /\ err = ""
  /\ exitCode = -1
  /\ ret = "none"
  /\ prev = [l2p |-> FreshL2p, writes |-> FreshWrites, isDead |-> FreshDead]

CallSelect ==
  /\ pc = "select"
  /\ newP' = select_physical_block(writes, isDead)
  /\ pc' = "selected"
  /\ UNCHANGED <<cfg, run, idx, l2p, writes, isDead, devLog, lastIo, stats,
                 err, exitCode, ret, prev>>

NextSelect == CallSelect

SpecSelect == InitSelect /\ [][NextSelect]_vars

(* ======================= properties ==================================== *)
Alive == { i \in Blocks : isDead[i] = 0 }

(* C1: on every pool (any write counts, any dead flags) the selector       *)
(* returns a non-dead block of minimum write count among the non-dead      *)
(* blocks, the lowest index among those of that count, and returns -1 only *)
(* when no block is non-dead.                                              *)
C1_SelectorContract ==
  pc = "selected" =>
    IF Alive = {}
    THEN newP = -1
    ELSE /\ newP \in Alive
         /\ \A j \in Alive :
              /\ writes[newP] <= writes[j]
              /\ writes[j] = writes[newP] => newP <= j

(* C1 restricted to pools whose non-dead blocks all have a write count     *)
(* below INT_MAX: the part of the contract the scan of lines 94-104 keeps. *)
C1_BelowIntMax ==
  (\A i \in Alive : writes[i] < INT_MAX) => C1_SelectorContract

(* C2: every write count is non-negative and a dead block has at least     *)
(* LIFESPAN writes.                                                        *)
C2_DeadImpliesWorn ==
  \A i \in Blocks :
    /\ writes[i] >= 0
    /\ isDead[i] # 0 => writes[i] >= cfg.life

C2_Witness ==
  /\ pc = "loop"
  /\ \E i \in Blocks : isDead[i] # 0
  /\ \E i \in Blocks : isDead[i] = 0 /\ writes[i] > 0

(* C3: within a run no write count decreases and a dead flag, once set,    *)
(* stays set.                                                              *)
C3_Monotone ==
  [][ run' = run =>
        \A i \in Blocks :
          /\ writes'[i] >= writes[i]
          /\ isDead[i] # 0 => isDead'[i] # 0 ]_vars

(* A block is dead and a later write of the same run went to another one. *)
C3_Witness ==
  /\ devLog # <<>>
  /\ \E i \in Blocks :
       /\ isDead[i] # 0
       /\ devLog[Len(devLog)].offset # i * BLOCK_SIZE

AllWorn == \A i \in Blocks : writes[i] >= cfg.life

NextInRange ==
  /\ pc = "loop"
  /\ idx < NumRequests
  /\ cfg.workload[idx + 1] >= 0
  /\ cfg.workload[idx + 1] < cfg.nl

(* C4: once every write count has reached LIFESPAN, the next in-range      *)
(* request gets no block and ends the run, and no step of the run writes   *)
(* to the device, changes the L2P table or changes a write count.          *)
C4_ExhaustionHalts ==
  [][ (AllWorn /\ run' = run) =>
        /\ writes' = writes
        /\ isDead' = isDead
        /\ l2p' = l2p
        /\ devLog' = devLog
        /\ NextInRange =>
             (pc' = "returned" /\ newP' = -1 /\ err' = NoHealthyBlock /\ idx' = idx)
        /\ pc # "loop" => pc' # "loop" ]_vars

C4_Witness ==
  /\ AllWorn
  /\ pc = "returned"
  /\ err = NoHealthyBlock
  /\ idx + 1 < NumRequests

(* The sum of writes[lo .. hi-1]. *)
RECURSIVE SumWrites(_, _)
SumWrites(lo, hi) ==
  IF lo >= hi THEN 0
  ELSE IF hi = lo + 1 THEN writes[lo]
  ELSE LET mid == (lo + hi) \div 2
       IN  SumWrites(lo, mid) + SumWrites(mid, hi)

PoolWrites == SumWrites(0, cfg.nb)

(* C5: a run that ends by exhaustion still computes the statistics, over   *)
(* the wear state reached.                                                 *)
C5_StatsAfterExhaustion ==
  (pc = "returned" /\ err = NoHealthyBlock) =>
    /\ stats.computed
    /\ stats.totalWrites = PoolWrites

(* C6: a failed device write aborts the run: the chosen block's write      *)
(* count and dead flag are not updated and no later request is processed.  *)
C6_IoFailureAborts ==
  [][ /\ (lastIo' = "fail" /\ devLog' # devLog) =>
           (writes' = writes /\ isDead' = isDead)
      /\ (lastIo = "fail" /\ run' = run) =>
           (idx' = idx /\ devLog' = devLog /\ writes' = writes) ]_vars

(* The number of in-range requests among the first k of the workload. *)
CountValid(k) ==
  Cardinality({ n \in 1..k : cfg.workload[n] >= 0 /\ cfg.workload[n] < cfg.nl })

(* C7: when a run has ended, by draining the workload or by exhaustion,    *)
(* the sum of the write counts is the number of in-range requests          *)
(* processed, and so is totalWrites when the statistics are computed.      *)
C7_Conservation ==
  pc = "returned" =>
    /\ PoolWrites = CountValid(idx)
    /\ stats.computed => (idx = NumRequests /\ stats.totalWrites = CountValid(idx))
    /\ ~stats.computed => (err = NoHealthyBlock /\ idx < NumRequests)

(* An exhausted run that skipped an out-of-range request. *)
C7_Witness ==
  /\ pc = "returned"
  /\ err = NoHealthyBlock
  /\ PoolWrites > 0
  /\ CountValid(idx) < idx

(* C8: a request below 0 or at or above NUM_LOGICAL changes no write       *)
(* count, dead flag or L2P entry, issues no device write, reports no       *)
(* exhaustion, and the loop goes on with the next request.                 *)
C8_SkipFrame ==
  [][ ( /\ pc = "loop"
        /\ idx < NumRequests
        /\ (cfg.workload[idx + 1] < 0 \/ cfg.workload[idx + 1] >= cfg.nl) ) =>
        /\ writes' = writes
        /\ isDead' = isDead
        /\ l2p' = l2p
        /\ devLog' = devLog
        /\ err' = err
        /\ pc' = "loop"
        /\ idx' = idx + 1 ]_vars

(* A negative and a too large request were skipped after a write. *)
C8_Witness ==
  /\ pc = "loop"
  /\ devLog # <<>>
  /\ \E m, n \in 1..idx :
       /\ cfg.workload[m] < 0
       /\ cfg.workload[n] >= cfg.nl
  /\ PoolWrites = Len(devLog)

ScenarioAOrder == <<0, 1, 2, 3, 0, 1, 2, 3>>

(* C9: Scenario A.  The writes go to blocks 0,1,2,3,0,1,2,3 in this order; *)
(* after the eighth every block has 2 writes and is dead, not before; a    *)
(* ninth in-range request ends the run by exhaustion.                      *)
C9_ScenarioA ==
  cfg \in ScenarioA =>
    /\ Len(devLog) <= 8
    /\ \A k \in 1..Len(devLog) :
         devLog[k].offset = ScenarioAOrder[k] * BLOCK_SIZE
    /\ pc \in {"loop", "returned"} => Len(devLog) = idx
    /\ Len(devLog) = 8 =>
         \A i \in Blocks : writes[i] = 2 /\ isDead[i] # 0
    /\ Len(devLog) < 8 => \E i \in Blocks : isDead[i] = 0
    /\ pc = "returned" =>
         /\ idx = 8
         /\ NumRequests = 8 => (err = "" /\ stats.computed)
         /\ NumRequests = 9 => (err = NoHealthyBlock /\ newP = -1)

C9_Witness ==
  /\ cfg \in ScenarioA
  /\ NumRequests = 9
  /\ pc = "returned"
  /\ err = NoHealthyBlock
  /\ Len(devLog) = 8

(* C10: Scenario B.  The reference configuration drains its 220 requests   *)
(* without exhaustion, with 220 physical writes and no dead block.         *)
C10_ScenarioB ==
  cfg = Reference =>
    /\ err # NoHealthyBlock
    /\ pc = "returned" =>
         /\ idx = 220
         /\ stats.computed
         /\ stats.totalWrites = 220
         /\ stats.deadCount = 0
         /\ Len(devLog) = 220
         /\ \A i \in Blocks : isDead[i] = 0

C10_Witness ==
  /\ cfg = Reference
  /\ pc = "returned"
  /\ stats.computed
  /\ run = 1

(* C11: a run of the same workload and configuration that follows another  *)
(* starts from zero counts, no dead block and an unmapped table, and ends  *)
(* with the write counts, dead flags and L2P table the previous run ended  *)
(* with.                                                                   *)
C11_RunsAgree ==
  /\ pc = "open" =>
       /\ \A i \in Blocks : writes[i] = 0 /\ isDead[i] = 0
       /\ \A a \in Logical : l2p[a] = -1
  /\ (run >= 1 /\ pc = "returned") =>
       /\ writes = prev.writes
       /\ isDead = prev.isDead
       /\ l2p = prev.l2p

(* A second run has ended after writes, a retirement and a remapping. *)
C11_Witness ==
  /\ run >= 1
  /\ pc = "returned"
  /\ \E i \in Blocks : isDead[i] # 0
  /\ \E a \in Logical : l2p[a] > 0

(* C12: what a run hands back to its caller when it stopped for want of a  *)
(* healthy block differs from what a run that drained its workload hands   *)
(* back.                                                                   *)
C12_ExhaustionDistinct ==
  (pc = "returned" /\ err = NoHealthyBlock) => ret # RetVoid

(* C13: the block a write goes to is not dead and has fewer than LIFESPAN  *)
(* writes when it is chosen.                                               *)
C13_NoDeadSelected ==
  [][ (run' = run /\ Len(devLog') = Len(devLog) + 1) =>
        /\ newP' \in Blocks
        /\ devLog'[Len(devLog')].offset = newP' * BLOCK_SIZE
        /\ isDead[newP'] = 0
        /\ writes[newP'] < cfg.life ]_vars

(* A write was issued while a block of lower index was dead. *)
C13_Witness ==
  /\ pc = "loop"
  /\ devLog # <<>>
  /\ newP \in Blocks
  /\ \E i \in Blocks : i < newP /\ isDead[i] # 0 /\ idx = Len(devLog)

(* The positions in devLog of the writes issued for address a, and of the  *)
(* writes issued to block b.                                               *)
WritesFor(a) == { k \in 1..Len(devLog) : devLog[k].lba = a }
WritesTo(b) == { k \in 1..Len(devLog) : devLog[k].offset = b * BLOCK_SIZE }
Latest(ks) == CHOOSE k \in ks : \A j \in ks : j <= k

(* C14 as stated: the latest device write to the block a mapped address    *)
(* points to was the write for that address, and no two mapped addresses   *)
(* point to the same block.                                                *)
C14_BlockHoldsData ==
  /\ \A a \in Logical :
       l2p[a] # -1 =>
         /\ WritesTo(l2p[a]) # {}
         /\ devLog[Latest(WritesTo(l2p[a]))].lba = a
  /\ \A a, b \in Logical :
       (a # b /\ l2p[a] # -1 /\ l2p[b] # -1) => l2p[a] # l2p[b]

(* C14 as amended: an address is mapped exactly when a write was issued    *)
(* for it in this run, and then it points to the block its latest write    *)
(* went to, a block of the pool with at least one write.                   *)
C14_LatestWriteOfAddress ==
  \A a \in Logical :
    /\ l2p[a] = -1 <=> WritesFor(a) = {}
    /\ l2p[a] # -1 =>
         /\ l2p[a] \in Blocks
         /\ devLog[Latest(WritesFor(a))].offset = l2p[a] * BLOCK_SIZE
         /\ writes[l2p[a]] >= 1

(* Two addresses point to the same block, the second written after the     *)
(* first was remapped to it.                                               *)
C14_Witness ==
  /\ \E a, b \in Logical : a # b /\ l2p[a] # -1 /\ l2p[a] = l2p[b]
  /\ \E a \in Logical : Cardinality(WritesFor(a)) >= 2

(* C15: an in-range request for which block p is selected sets l2p[lba]    *)
(* to p, adds 1 to writes[p], sets isDead[p] exactly when the new count is *)
(* LIFESPAN, and changes no other entry of the three arrays; every         *)
(* in-range request met while a block is alive is such a step.             *)
C15_WriteFrame ==
  [][ /\ (run' = run /\ Len(devLog') = Len(devLog) + 1) =>
           LET lba == cfg.workload[idx + 1]
               p == newP'
           IN  /\ p \in Blocks
               /\ lba \in Logical
               /\ l2p'[lba] = p
               /\ \A a \in Logical \ {lba} : l2p'[a] = l2p[a]
               /\ writes'[p] = writes[p] + 1
               /\ isDead'[p] # 0 <=> writes'[p] = cfg.life
               /\ \A i \in Blocks \ {p} :
                    writes'[i] = writes[i] /\ isDead'[i] = isDead[i]
      /\ (NextInRange /\ \E i \in Blocks : isDead[i] = 0) =>
           (Len(devLog') = Len(devLog) + 1 /\ idx' = idx + 1) ]_vars

(* An address was remapped from one block to another, which the write      *)
(* retired.                                                                *)
C15_Witness ==
  /\ pc = "loop"
  /\ idx >= 2
  /\ Len(devLog) >= 2
  /\ devLog[Len(devLog)].lba = devLog[Len(devLog) - 1].lba
  /\ devLog[Len(devLog)].offset # devLog[Len(devLog) - 1].offset
  /\ isDead[newP] # 0

InRangeRequests ==
  SelectSeq(cfg.workload, LAMBDA x : x >= 0 /\ x < cfg.nl)

(* C16: the k-th device write of a run is the write for the k-th in-range  *)
(* request of the workload: BLOCK_SIZE bytes at the chosen block's index   *)
(* times BLOCK_SIZE, inside the device, issued when the L2P entry already  *)
(* names the block and the block's count is not yet incremented; the       *)
(* number of writes issued is the sum of the write counts.                 *)
C16_DeviceWrites ==
  /\ \A k \in 1..Len(devLog) :
       LET e == devLog[k]
       IN  /\ e.size = BLOCK_SIZE
           /\ e.offset >= 0
           /\ e.offset < cfg.nb * BLOCK_SIZE
           /\ e.offset % BLOCK_SIZE = 0
           /\ e.lba = InRangeRequests[k]
           /\ e.mapped * BLOCK_SIZE = e.offset
           /\ e.count = Cardinality({ j \in 1..(k - 1) : devLog[j].offset = e.offset })
  /\ pc \in {"loop", "returned"} =>
       /\ Len(devLog) = CountValid(idx)
       /\ Len(devLog) = PoolWrites

(* A run has ended after a second write to a block and a skipped request. *)
C16_Witness ==
  /\ pc = "returned"
  /\ \E k \in 1..Len(devLog) : devLog[k].count >= 1
  /\ Len(devLog) < idx

(* C17: the statistics split the pool at pool_size / 2: the two sums are   *)
(* those of the write counts below and from that index, the two averages   *)
(* those sums over the sizes of their ranges, and the sums add up to       *)
(* totalWrites.  (An average n / d equals s / size when n * size = s * d.) *)
C17_HalfSplit ==
  stats.computed =>
    LET h == cfg.nb \div 2
    IN  /\ stats.firstHalfWrites = SumWrites(0, h)
        /\ stats.secondHalfWrites = SumWrites(h, cfg.nb)
        /\ stats.avg1[1] * h = SumWrites(0, h) * stats.avg1[2]
        /\ stats.avg2[1] * (cfg.nb - h) = SumWrites(h, cfg.nb) * stats.avg2[2]
        /\ stats.firstHalfWrites + stats.secondHalfWrites = stats.totalWrites

(* C17 where the pool has twice as many blocks as there are logical        *)
(* addresses, as in the reference configuration.                           *)
C17_HalfSplitWhenDouble ==
  cfg.nb = 2 * cfg.nl => C17_HalfSplit

WriteCounts == { writes[i] : i \in Blocks }

(* C18: the largest write count of the pool exceeds the smallest by at     *)
(* most 1, dead blocks included.                                           *)
C18_WearEven ==
  \A x, y \in WriteCounts : x - y <= 1

(* A dead block beside a live block that has one write less. *)
C18_Witness ==
  \E i, j \in Blocks :
    /\ isDead[i] # 0
    /\ isDead[j] = 0
    /\ writes[i] = writes[j] + 1
    /\ writes[j] >= 1

(* C19: the n-th write of a run goes to block (n-1) mod NUM_BLOCKS; a run  *)
(* writes at most NUM_BLOCKS * LIFESPAN times; it reports exhaustion only  *)
(* on the in-range request that follows NUM_BLOCKS * LIFESPAN processed    *)
(* ones, and a run that drained its workload had no more in-range requests *)
(* than that.                                                              *)
C19_RoundRobin ==
  /\ \A n \in 1..Len(devLog) :
       devLog[n].offset = ((n - 1) % cfg.nb) * BLOCK_SIZE
  /\ Len(devLog) <= cfg.nb * cfg.life
  /\ err = NoHealthyBlock =>
       /\ Len(devLog) = cfg.nb * cfg.life
       /\ CountValid(idx) = cfg.nb * cfg.life
       /\ CountValid(idx + 1) = cfg.nb * cfg.life + 1
  /\ (pc = "returned" /\ stats.computed) =>
       CountValid(NumRequests) <= cfg.nb * cfg.life

(* Exhaustion of a pool of several blocks after the writes went round it   *)
(* more than once.                                                         *)
C19_Witness ==
  /\ err = NoHealthyBlock
  /\ cfg.nb >= 2
  /\ Len(devLog) > cfg.nb

(* C20: no write count exceeds LIFESPAN and a block is dead exactly when   *)
(* its count is LIFESPAN.                                                  *)
C20_ExactRetirement ==
  \A i \in Blocks :
    /\ writes[i] <= cfg.life
    /\ isDead[i] # 0 <=> writes[i] = cfg.life

(* A drained run with a dead block and a live one. *)
C20_Witness ==
  /\ pc = "returned"
  /\ stats.computed
  /\ \E i, j \in Blocks : isDead[i] # 0 /\ isDead[j] = 0 /\ writes[j] >= 1
====
